---- MODULE Spec2Model ----
(***************************************************************************)
(* Model of dashboard.py: a Streamlit script that loads a sales table,     *)
(* filters it by date interval and country, and derives four metrics and   *)
(* seven chart aggregations.  Every execution of the script (the first one *)
(* and each rerun after a widget change) runs the statements top to        *)
(* bottom; pc is the position in the script.                               *)
(***************************************************************************)
EXTENDS Integers, Sequences, FiniteSets, TLC

(***************************************************************************)
(* Bounds of the model.                                                    *)
(***************************************************************************)
\* Longest raw table of the free-form input family.
MaxRows == 2
\* Number of groups beyond the top-N cut in the many-groups input family.
ExtraGroups == 2

(***************************************************************************)
(* Values.                                                                 *)
(***************************************************************************)
\* A missing CSV cell (pandas NaN).  A present cell v is <<v>>.
NaN == <<>>

\* Code-point order of the strings used as Country and Description.
Lexicon ==
  << "ALARM CLOCK", "Australia", "BAKING SET", "Belgium", "CAKE TIN", "Cyprus",
     "DOORMAT", "Denmark", "EGG CUP", "EIRE", "FELT HEART", "Finland", "France",
     "GLASS JAR", "Germany", "HAND WARMER", "INK PAD", "Italy", "JAM JAR",
     "Japan", "KEY FOB", "LUNCH BAG", "MUG", "NAPKINS", "Norway", "Portugal",
     "Spain", "Sweden", "United Kingdom" >>

StrRank(s) == CHOOSE i \in 1..Len(Lexicon) : Lexicon[i] = s

\* datetime.date.__le__: dates are [year, month, day].
DateLE(a, b) ==
  \/ a.year < b.year
  \/ a.year = b.year /\ a.month < b.month
  \/ a.year = b.year /\ a.month = b.month /\ a.day <= b.day

\* Timestamp.__le__: timestamps are [year, month, day, hour, minute].
TimestampLE(a, b) ==
  \/ ~DateLE([year |-> b.year, month |-> b.month, day |-> b.day],
             [year |-> a.year, month |-> a.month, day |-> a.day])
  \/ /\ a.year = b.year /\ a.month = b.month /\ a.day = b.day
     /\ (a.hour < b.hour \/ (a.hour = b.hour /\ a.minute <= b.minute))

\* pd.to_datetime on a cell "M/D/YYYY H:MM", held as <<M, D, YYYY, H, MM>>.
to_datetime(s) ==
  [year |-> s[3], month |-> s[1], day |-> s[2], hour |-> s[4], minute |-> s[5]]

\* Timestamp.date() / Series.dt.date: the time of day is dropped.
date(ts) == [year |-> ts.year, month |-> ts.month, day |-> ts.day]

\* Series.dt.to_period('M').
to_period(ts) == [year |-> ts.year, month |-> ts.month]

\* Series.dt.hour.
hour(ts) == ts.hour

Range(s) == {s[i] : i \in 1..Len(s)}

(***************************************************************************)
(* load_data                                                               *)
(***************************************************************************)
\* df.dropna(subset=['CustomerID'])
dropna_CustomerID(t) == SelectSeq(t, LAMBDA r : r.CustomerID # NaN)

\* df[df['Quantity'] > 0]
positive_Quantity(t) == SelectSeq(t, LAMBDA r : r.Quantity > 0)

\* df['InvoiceDate'] = pd.to_datetime(df['InvoiceDate'])
parse_InvoiceDate(t) ==
  [i \in 1..Len(t) |-> [t[i] EXCEPT !.InvoiceDate = to_datetime(@)]]

\* df['TotalPrice'] = df['Quantity'] * df['UnitPrice']
add_TotalPrice(t) ==
  [i \in 1..Len(t) |-> t[i] @@ ("TotalPrice" :> t[i].Quantity * t[i].UnitPrice)]

\* df.drop_duplicates(): the first of each run of identical rows is kept.
drop_duplicates(t) ==
  LET keep(i) == \A j \in 1..(i - 1) : t[j] # t[i]
      F[i \in 0..Len(t)] ==
        IF i = 0 THEN <<>>
        ELSE IF keep(i) THEN Append(F[i - 1], t[i]) ELSE F[i - 1]
  IN F[Len(t)]

load_data_noQuantityFilter(csv_rows) ==
  drop_duplicates(add_TotalPrice(parse_InvoiceDate(dropna_CustomerID(csv_rows))))

load_data(csv_rows) ==
  drop_duplicates(add_TotalPrice(parse_InvoiceDate(
      positive_Quantity(dropna_CustomerID(csv_rows)))))

(***************************************************************************)
(* Filter (lines 89-92)                                                    *)
(***************************************************************************)
\* The two bounds joined by | instead of &.
date_mask_or(t, date_range) ==
  [i \in 1..Len(t) |->
     \/ DateLE(date_range[1], date(t[i].InvoiceDate))
     \/ DateLE(date(t[i].InvoiceDate), date_range[2])]

\* (df['InvoiceDate'].dt.date >= date_range[0]) & (... <= date_range[1])
date_mask(t, date_range) ==
  [i \in 1..Len(t) |->
     /\ DateLE(date_range[1], date(t[i].InvoiceDate))
     /\ DateLE(date(t[i].InvoiceDate), date_range[2])]

\* if selected_country != 'All': mask &= (df['Country'] == selected_country)
filter_mask(t, date_range, selected_country) ==
  LET m == date_mask(t, date_range)
  IN IF selected_country # "All"
       THEN [i \in 1..Len(t) |-> m[i] /\ t[i].Country = selected_country]
       ELSE m

\* df[mask]: the rows whose mask entry is True, in table order.
boolean_index(t, m) ==
  LET F[i \in 0..Len(t)] ==
        IF i = 0 THEN <<>>
        ELSE IF m[i] THEN Append(F[i - 1], t[i]) ELSE F[i - 1]
  IN F[Len(t)]

\* A mask aligned one row late: row i is kept when row i-1 satisfies it.
ApplyFilter_misaligned(t, date_range, selected_country) ==
  LET m == filter_mask(t, date_range, selected_country)
  IN boolean_index(t, [i \in 1..Len(t) |-> IF i = 1 THEN FALSE ELSE m[i - 1]])

\* Only the date bounds are applied.
ApplyFilter_dateOnly(t, date_range, selected_country) ==
  boolean_index(t, date_mask(t, date_range))

\* filtered_df = df[mask].copy()
ApplyFilter(t, date_range, selected_country) ==
  boolean_index(t, filter_mask(t, date_range, selected_country))

(***************************************************************************)
(* Grouping and sorting helpers (pandas groupby / sort_values / head/tail) *)
(***************************************************************************)
\* The elements of S in increasing order of rank, a one-to-one function
\* from S to the integers.
SortSet(S, rank) ==
  [k \in 1..Cardinality(S) |->
     CHOOSE x \in S : Cardinality({y \in S : rank[y] < rank[x]}) = k - 1]

\* Series.sum(): the sum of a sequence of numbers (0 for none).
Sum(s) ==
  LET F[i \in 0..Len(s)] == IF i = 0 THEN 0 ELSE F[i - 1] + s[i]
  IN F[Len(s)]

\* df[col]: a column as a sequence.
Column(t, col) == [i \in 1..Len(t) |-> t[i][col]]

\* Python's str.__lt__, as a rank on a set of strings of Lexicon.
StrOrder(S) == [x \in S |-> StrRank(x)]

\* Period('M').ordinal: months since 1970-01.
PeriodOrdinal(p) == (p.year - 1970) * 12 + (p.month - 1)

\* groupby(keys)[vals].sum(), keys and vals being columns of equal length:
\* one entry per key present, keys ascending by rank.
GroupSum(keys, vals, rank) ==
  LET ks == SortSet(Range(keys), rank)
  IN [k \in 1..Len(ks) |->
        [key |-> ks[k],
         val |-> Sum([i \in 1..Len(keys) |-> IF keys[i] = ks[k] THEN vals[i] ELSE 0])]]

\* groupby(keys)[vals].nunique()
GroupNunique(keys, vals, rank) ==
  LET ks == SortSet(Range(keys), rank)
  IN [k \in 1..Len(ks) |->
        [key |-> ks[k],
         val |-> Cardinality({vals[i] : i \in {j \in 1..Len(keys) : keys[j] = ks[k]}})]]

\* Series.sort_values(ascending=...): the default kind is 'quicksort', which
\* is not stable, so any order of the entries that is monotone in val can
\* come out.  The result is the set of those orders.
RECURSIVE SortedOrders(_, _)
SortedOrders(S, ascending) ==
  IF S = {} THEN {<<>>}
  ELSE LET first == {e \in S : \A f \in S :
                       IF ascending THEN e.val <= f.val ELSE e.val >= f.val}
       IN UNION {{<<m>> \o r : r \in SortedOrders(S \ {m}, ascending)} : m \in first}

sort_values(series, ascending) == SortedOrders(Range(series), ascending)

\* Series.head(n)
head(s, n) == SubSeq(s, 1, IF Len(s) < n THEN Len(s) ELSE n)

\* The first n entries are taken instead of the last n.
tail_takesFirst(s, n) == SubSeq(s, 1, IF Len(s) < n THEN Len(s) ELSE n)

\* Series.tail(n)
tail(s, n) == SubSeq(s, IF Len(s) < n THEN 1 ELSE Len(s) - n + 1, Len(s))

\* The 10 of .head(10) and .tail(10) (lines 146, 182, 197).
TopN == 10

(***************************************************************************)
(* Numbers and text                                                        *)
(***************************************************************************)
Abs(a) == IF a < 0 THEN -a ELSE a

Sgn(a) == IF a < 0 THEN -1 ELSE IF a = 0 THEN 0 ELSE 1

RECURSIVE GCD(_, _)
GCD(a, b) == IF b = 0 THEN a ELSE GCD(b, a % b)

\* The quotient a / b of float division, held exactly as a reduced fraction
\* [num, den] with den > 0.  numpy's float64 does not raise on b = 0: the
\* quotient is then inf, -inf or nan, held as [num |-> Sgn(a), den |-> 0].
true_div(a, b) ==
  IF b = 0 THEN [num |-> Sgn(a), den |-> 0]
  ELSE LET g == GCD(Abs(a), Abs(b))
       IN [num |-> Sgn(b) * (a \div g), den |-> Abs(b) \div g]

\* The int 0 of the else branch of line 102, as a fraction.
Zero == [num |-> 0, den |-> 1]

Digit(d) == <<"0", "1", "2", "3", "4", "5", "6", "7", "8", "9">>[d + 1]

\* '%Y' and '%m' / '%d' fields: zero-padded decimal text, one character each.
Pad4(n) == <<Digit(n \div 1000), Digit((n \div 100) % 10),
             Digit((n \div 10) % 10), Digit(n % 10)>>

Pad2(n) == <<Digit((n \div 10) % 10), Digit(n % 10)>>

\* str(Period('M')): 'YYYY-MM'.
PeriodStr(p) == Pad4(p.year) \o <<"-">> \o Pad2(p.month)

\* Timestamp.strftime('%Y-%m-%d').
strftime_Ymd(ts) == Pad4(ts.year) \o <<"-">> \o Pad2(ts.month) \o <<"-">> \o Pad2(ts.day)

(***************************************************************************)
(* Key metrics (lines 99-102)                                              *)
(***************************************************************************)
\* filtered_df['TotalPrice'].sum()
total_sales_of(t) == Sum(Column(t, "TotalPrice"))

\* filtered_df['InvoiceNo'].nunique()
total_orders_of(t) == Cardinality({t[i].InvoiceNo : i \in 1..Len(t)})

\* filtered_df['CustomerID'].nunique()
total_customers_of(t) == Cardinality({t[i].CustomerID : i \in 1..Len(t)})

\* The guard admits total_orders = 0.
avg_order_value_of_guardGE(sales, orders) ==
  IF orders >= 0 THEN true_div(sales, orders) ELSE Zero

\* total_sales / total_orders if total_orders > 0 else 0
avg_order_value_of(sales, orders) ==
  IF orders > 0 THEN true_div(sales, orders) ELSE Zero

(***************************************************************************)
(* Chart aggregations                                                      *)
(***************************************************************************)
\* Lines 127, 136.  The grouper filtered_df['InvoiceDate'].dt.to_period('M')
\* keeps the Series name 'InvoiceDate', which becomes the index name.
monthly_sales_of(t) ==
  [index_name |-> "InvoiceDate",
   items |-> LET months == [i \in 1..Len(t) |-> to_period(t[i].InvoiceDate)]
             IN GroupSum(months, Column(t, "TotalPrice"),
                         [m \in Range(months) |-> PeriodOrdinal(m)])]

\* index=False: the month column is left out.
to_csv_noIndex(ms) ==
  <<  <<"Sales">>  >> \o [i \in 1..Len(ms.items) |-> <<ms.items[i].val>>]

\* monthly_sales.to_frame(name='Sales').to_csv(index=True): the header line
\* is the index name and the column name; one line per entry follows.
to_csv(ms) ==
  <<  <<ms.index_name, "Sales">>  >> \o
  [i \in 1..Len(ms.items) |-> <<PeriodStr(ms.items[i].key), ms.items[i].val>>]

\* filtered_df.groupby('Country')['TotalPrice'].sum()
country_sales_of(t) ==
  GroupSum(Column(t, "Country"), Column(t, "TotalPrice"),
           StrOrder(Range(Column(t, "Country"))))

\* filtered_df.groupby('Description')['Quantity'].sum()
product_units_of(t) ==
  GroupSum(Column(t, "Description"), Column(t, "Quantity"),
           StrOrder(Range(Column(t, "Description"))))

\* .index of a Series: the keys in order.
index_of(series) == [i \in 1..Len(series) |-> series[i].key]

\* The .isin(top_countries) restriction of line 147 is left out.
monthly_country_sales_of_noIsin(t, top) ==
  LET keys == [i \in 1..Len(t) |-> <<to_period(t[i].InvoiceDate), t[i].Country>>]
      g == GroupSum(keys, Column(t, "TotalPrice"),
                    [k \in Range(keys) |->
                       PeriodOrdinal(k[1]) * (Len(Lexicon) + 1) + StrRank(k[2])])
  IN [i \in 1..Len(g) |->
        [Month |-> PeriodStr(g[i].key[1]), Country |-> g[i].key[2],
         Revenue |-> g[i].val]]

\* Lines 141-147: group by (month, Country), name the columns Month and
\* Revenue, turn the month into text, keep the rows of the listed countries.
monthly_country_sales_of(t, top) ==
  LET keys == [i \in 1..Len(t) |-> <<to_period(t[i].InvoiceDate), t[i].Country>>]
      g == GroupSum(keys, Column(t, "TotalPrice"),
                    [k \in Range(keys) |->
                       PeriodOrdinal(k[1]) * (Len(Lexicon) + 1) + StrRank(k[2])])
      rows == [i \in 1..Len(g) |->
                 [Month |-> PeriodStr(g[i].key[1]), Country |-> g[i].key[2],
                  Revenue |-> g[i].val]]
  IN SelectSeq(rows, LAMBDA r : r.Country \in Range(top))

\* filtered_df['Hour'] = filtered_df['InvoiceDate'].dt.hour
add_Hour(t) ==
  [i \in 1..Len(t) |-> t[i] @@ ("Hour" :> hour(t[i].InvoiceDate))]

\* filtered_df.groupby('Hour')['TotalPrice'].sum()
hourly_sales_of(t) ==
  GroupSum(Column(t, "Hour"), Column(t, "TotalPrice"),
           [h \in Range(Column(t, "Hour")) |-> h])

\* filtered_df.groupby('CustomerID')['InvoiceNo'].nunique()
customer_orders_of(t) ==
  GroupNunique(Column(t, "CustomerID"), Column(t, "InvoiceNo"),
               [c \in Range(Column(t, "CustomerID")) |-> c[1]])

\* The three numeric columns of line 227.
NumericColumns == {"Quantity", "UnitPrice", "TotalPrice"}

\* A correlation coefficient r is held as its sign and its square r^2 (a
\* reduced fraction); nan is sign 0 with the fraction 0/0.
NaNCorr == [sign |-> 0, r2 |-> [num |-> 0, den |-> 0]]

OneCorr == [sign |-> 1, r2 |-> [num |-> 1, den |-> 1]]

\* The covariance (divisor n - 1) in place of the correlation, as .cov()
\* would give.
pearson_cov(t, a, b) ==
  LET n == Len(t)
      x == Column(t, a)
      y == Column(t, b)
      sx == Sum(x)
      sy == Sum(y)
      sxy == n * Sum([i \in 1..n |-> x[i] * y[i]]) - sx * sy
  IN IF n < 1 THEN NaNCorr
     ELSE [sign |-> Sgn(sxy), r2 |-> true_div(sxy * sxy, n * (n - 1) * n * (n - 1))]

\* Pearson correlation of columns a and b as pandas computes it (nancorr,
\* min_periods = 1): nan when there is no row or when the product of the two
\* sums of squared deviations is 0, else cov / sqrt(ssx * ssy).  The sums
\* are scaled by the row count n to stay in the integers.
pearson(t, a, b) ==
  LET n == Len(t)
      x == Column(t, a)
      y == Column(t, b)
      sx == Sum(x)
      sy == Sum(y)
      ssx == n * Sum([i \in 1..n |-> x[i] * x[i]]) - sx * sx
      ssy == n * Sum([i \in 1..n |-> y[i] * y[i]]) - sy * sy
      sxy == n * Sum([i \in 1..n |-> x[i] * y[i]]) - sx * sy
  IN IF n < 1 \/ ssx * ssy = 0 THEN NaNCorr
     ELSE [sign |-> Sgn(sxy), r2 |-> true_div(sxy * sxy, ssx * ssy)]

\* filtered_df[['Quantity', 'UnitPrice', 'TotalPrice']].corr()
corr(t) ==
  [p \in NumericColumns \X NumericColumns |-> pearson(t, p[1], p[2])]

(***************************************************************************)
(* Inputs                                                                  *)
(***************************************************************************)
\* Invoice headers of the free-form family: two invoices on the same day in
\* different countries, one a month later, one without a customer.
Invoices ==
  { [InvoiceNo |-> 536365, InvoiceDate |-> <<1, 5, 2021, 8, 26>>,
     CustomerID |-> <<17850>>, Country |-> "France"],
    [InvoiceNo |-> 536366, InvoiceDate |-> <<1, 5, 2021, 14, 2>>,
     CustomerID |-> <<13047>>, Country |-> "United Kingdom"],
    [InvoiceNo |-> 536367, InvoiceDate |-> <<2, 10, 2021, 8, 26>>,
     CustomerID |-> <<17850>>, Country |-> "France"],
    [InvoiceNo |-> 536368, InvoiceDate |-> <<2, 10, 2021, 9, 0>>,
     CustomerID |-> NaN, Country |-> "United Kingdom"] }

Products ==
  { [Description |-> "ALARM CLOCK", UnitPrice |-> 1],
    [Description |-> "BAKING SET", UnitPrice |-> 3] }

Quantities == {0, 1, 2}

CsvRow(inv, prod, q) ==
  [InvoiceNo |-> inv.InvoiceNo, Description |-> prod.Description, Quantity |-> q,
   InvoiceDate |-> inv.InvoiceDate, UnitPrice |-> prod.UnitPrice,
   CustomerID |-> inv.CustomerID, Country |-> inv.Country]

RowPool == {CsvRow(inv, prod, q) : inv \in Invoices, prod \in Products, q \in Quantities}

\* Every CSV body of at most MaxRows rows over RowPool.
SmallTables == UNION {[1..n -> RowPool] : n \in 0..MaxRows}

ProductNames == SelectSeq(Lexicon, LAMBDA s : s \in
  {"ALARM CLOCK", "BAKING SET", "CAKE TIN", "DOORMAT", "EGG CUP", "FELT HEART",
   "GLASS JAR", "HAND WARMER", "INK PAD", "JAM JAR", "KEY FOB", "LUNCH BAG",
   "MUG", "NAPKINS"})

CountryNames == SelectSeq(Lexicon, LAMBDA s : s \notin Range(ProductNames))

\* The many-groups family: TopN + ExtraGroups rows, each its own product,
\* country, invoice and customer.  The first ExtraGroups + 1 rows take a
\* quantity of 1 or 2 (so that they compete, with ties, for the last place
\* of a top-N cut); the others have larger, pairwise different quantities.
NGroups == TopN + ExtraGroups

ManyGroupsTables ==
  { [i \in 1..NGroups |->
       [InvoiceNo |-> 536400 + i, Description |-> ProductNames[i],
        Quantity |-> IF i <= ExtraGroups + 1 THEN q[i] ELSE 2 + i,
        InvoiceDate |-> <<1, 5, 2021, 10, 0>>, UnitPrice |-> 2,
        CustomerID |-> <<12000 + i>>, Country |-> CountryNames[i]]]
    : q \in [1..(ExtraGroups + 1) -> {1, 2}] }

InputTables == SmallTables \cup ManyGroupsTables

\* Dates the date_input widget is offered in the model.
Calendar ==
  { [year |-> 2021, month |-> 1, day |-> 5],
    [year |-> 2021, month |-> 1, day |-> 20],
    [year |-> 2021, month |-> 2, day |-> 10] }

(***************************************************************************)
(* State                                                                   *)
(***************************************************************************)
VARIABLES
  csv_file,    \* the rows of data/data.csv, as read_csv reads them
  cache,       \* the st.cache_data store of load_data: <<>> or <<table>>
  load_runs,   \* how many times the body of load_data has run
  pc,          \* the statement of the script that runs next
  ns           \* the script's namespace: variable name -> value

vars == <<csv_file, cache, load_runs, pc, ns>>

\* name = value
Assign(env, name, value) ==
  [n \in DOMAIN env \cup {name} |-> IF n = name THEN value ELSE env[n]]

Assigned(name) == name \in DOMAIN ns

df == ns["df"]
date_range == ns["date_range"]
selected_country == ns["selected_country"]
filtered_df == ns["filtered_df"]
total_sales == ns["total_sales"]
total_orders == ns["total_orders"]
avg_order_value == ns["avg_order_value"]
monthly_sales == ns["monthly_sales"]
csv == ns["csv"]
monthly_country_sales == ns["monthly_country_sales"]
top_countries == ns["top_countries"]
hourly_sales == ns["hourly_sales"]
top_products_data == ns["top_products_data"]
top_countries_data == ns["top_countries_data"]
customer_orders == ns["customer_orders"]
corr_matrix == ns["corr_matrix"]

Init ==
  /\ csv_file \in InputTables
  /\ cache = <<>>
  /\ load_runs = 0
  /\ pc = "load"
  /\ ns = <<>>

(***************************************************************************)
(* The script, statement by statement                                      *)
(***************************************************************************)
\* Line 58, df = load_data() under @st.cache_data: the body runs on a cache
\* miss and its result is stored; on a hit the stored table is returned.
CallLoadData ==
  /\ pc = "load"
  /\ IF cache = <<>>
       THEN LET t == load_data(csv_file)
            IN /\ cache' = <<t>>
               /\ load_runs' = load_runs + 1
               /\ ns' = Assign(ns, "df", t)
       ELSE /\ ns' = Assign(ns, "df", cache[1])
            /\ UNCHANGED <<cache, load_runs>>
  /\ pc' = "last_updated"
  /\ UNCHANGED csv_file

\* Series.max() / Series.min() of the InvoiceDate column of a table with rows.
max_InvoiceDate(t) ==
  CHOOSE m \in {t[i].InvoiceDate : i \in 1..Len(t)} :
    \A i \in 1..Len(t) : TimestampLE(t[i].InvoiceDate, m)

min_InvoiceDate(t) ==
  CHOOSE m \in {t[i].InvoiceDate : i \in 1..Len(t)} :
    \A i \in 1..Len(t) : TimestampLE(m, t[i].InvoiceDate)

\* Line 61.  On a table without rows max() is NaT and NaT.strftime raises:
\* the run ends there.
LastUpdated ==
  /\ pc = "last_updated"
  /\ IF df = <<>>
       THEN /\ pc' = "crashed"
            /\ UNCHANGED ns
       ELSE /\ ns' = Assign(ns, "last_updated", strftime_Ymd(max_InvoiceDate(df)))
            /\ pc' = "sidebar"
  /\ UNCHANGED <<csv_file, cache, load_runs>>

\* ['All'] + sorted(df['Country'].unique().tolist())
countries_of(t) ==
  <<"All">> \o SortSet(Range(Column(t, "Country")), StrOrder(Range(Column(t, "Country"))))

\* Line 75.
MinDate ==
  /\ pc = "sidebar"
  /\ ns' = Assign(ns, "min_date", date(min_InvoiceDate(df)))
  /\ pc' = "max_date"
  /\ UNCHANGED <<csv_file, cache, load_runs>>

\* Line 76.
MaxDate ==
  /\ pc = "max_date"
  /\ ns' = Assign(ns, "max_date", date(max_InvoiceDate(df)))
  /\ pc' = "date_input"
  /\ UNCHANGED <<csv_file, cache, load_runs>>

\* The values st.sidebar.date_input can return for a range (its default is
\* the pair [min_date, max_date]): a pair of offered dates, or, while only
\* the start of the range has been picked, a 1-tuple.
date_input_values(lo, hi) ==
  LET offered == {d \in Calendar : DateLE(lo, d) /\ DateLE(d, hi)}
  IN {<<start, end>> : start \in offered, end \in offered}
       \cup {<<start>> : start \in offered}

\* Lines 77-82.
DateInput ==
  /\ pc = "date_input"
  /\ \E picked \in date_input_values(ns["min_date"], ns["max_date"]) :
       ns' = Assign(ns, "date_range", picked)
  /\ pc' = "countries"
  /\ UNCHANGED <<csv_file, cache, load_runs>>

\* Line 85.
Countries ==
  /\ pc = "countries"
  /\ ns' = Assign(ns, "countries", countries_of(df))
  /\ pc' = "selectbox"
  /\ UNCHANGED <<csv_file, cache, load_runs>>

\* Line 86: the select box returns one of countries.
SelectBox ==
  /\ pc = "selectbox"
  /\ \E sel \in Range(ns["countries"]) : ns' = Assign(ns, "selected_country", sel)
  /\ pc' = "filter"
  /\ UNCHANGED <<csv_file, cache, load_runs>>

\* Lines 89-92.  date_range[1] of a 1-tuple raises IndexError at line 89:
\* the run ends there, with filtered_df unbound.
Filter ==
  /\ pc = "filter"
  /\ IF Len(date_range) < 2
       THEN /\ pc' = "crashed"
            /\ UNCHANGED ns
       ELSE /\ ns' = Assign(ns, "filtered_df",
                            ApplyFilter(df, date_range, selected_country))
            /\ pc' = "metrics"
  /\ UNCHANGED <<csv_file, cache, load_runs>>

\* Lines 99-102.
Metrics ==
  /\ pc = "metrics"
  /\ LET sales == total_sales_of(filtered_df)
         orders == total_orders_of(filtered_df)
     IN ns' = Assign(Assign(Assign(Assign(ns,
                "total_sales", sales), "total_orders", orders),
                "total_customers", total_customers_of(filtered_df)),
                "avg_order_value", avg_order_value_of(sales, orders))
  /\ pc' = "monthly"
  /\ UNCHANGED <<csv_file, cache, load_runs>>

\* Line 127: the monthly trend.
MonthlyTrend ==
  /\ pc = "monthly"
  /\ ns' = Assign(ns, "monthly_sales", monthly_sales_of(filtered_df))
  /\ pc' = "monthly_csv"
  /\ UNCHANGED <<csv_file, cache, load_runs>>

\* Line 136, after the chart of lines 128-134: the CSV download.
MonthlyCsv ==
  /\ pc = "monthly_csv"
  /\ ns' = Assign(ns, "csv", to_csv(monthly_sales))
  /\ pc' = "country_trend"
  /\ UNCHANGED <<csv_file, cache, load_runs>>

\* Lines 141-147: the country sums sorted descending, their first TopN keys,
\* and the (month, country) sums restricted to those countries.
CountryTrend ==
  /\ pc = "country_trend"
  /\ \E sorted \in sort_values(country_sales_of(filtered_df), FALSE) :
       LET top == index_of(head(sorted, TopN))
       IN ns' = Assign(Assign(ns, "top_countries", top),
                  "monthly_country_sales", monthly_country_sales_of(filtered_df, top))
  /\ pc' = "hourly"
  /\ UNCHANGED <<csv_file, cache, load_runs>>

\* The Hour column is written into the base table as well.
HourlyPattern_writesBase ==
  /\ pc = "hourly"
  /\ LET t == add_Hour(filtered_df)
     IN ns' = Assign(Assign(Assign(ns, "filtered_df", t), "df", add_Hour(df)),
                "hourly_sales", hourly_sales_of(t))
  /\ pc' = "top_products"
  /\ UNCHANGED <<csv_file, cache, load_runs>>

\* Lines 161-162: filtered_df (the copy made at line 92) gets the column Hour.
HourlyPattern ==
  /\ pc = "hourly"
  /\ LET t == add_Hour(filtered_df)
     IN ns' = Assign(Assign(ns, "filtered_df", t), "hourly_sales", hourly_sales_of(t))
  /\ pc' = "top_products"
  /\ UNCHANGED <<csv_file, cache, load_runs>>

\* Lines 179-182.
TopProducts ==
  /\ pc = "top_products"
  /\ \E sorted \in sort_values(product_units_of(filtered_df), TRUE) :
       ns' = Assign(ns, "top_products_data", tail(sorted, TopN))
  /\ pc' = "top_countries"
  /\ UNCHANGED <<csv_file, cache, load_runs>>

\* Lines 194-197.
TopCountries ==
  /\ pc = "top_countries"
  /\ \E sorted \in sort_values(country_sales_of(filtered_df), TRUE) :
       ns' = Assign(ns, "top_countries_data", tail(sorted, TopN))
  /\ pc' = "customer_orders"
  /\ UNCHANGED <<csv_file, cache, load_runs>>

\* Line 215.
CustomerOrders ==
  /\ pc = "customer_orders"
  /\ ns' = Assign(ns, "customer_orders", customer_orders_of(filtered_df))
  /\ pc' = "corr"
  /\ UNCHANGED <<csv_file, cache, load_runs>>

\* Line 227.
Correlation ==
  /\ pc = "corr"
  /\ ns' = Assign(ns, "corr_matrix", corr(filtered_df))
  /\ pc' = "done"
  /\ UNCHANGED <<csv_file, cache, load_runs>>

\* A widget change: Streamlit runs the script again from the top with a
\* fresh namespace (stopping the current run if one is under way).  The
\* cache store outlives the run.
Rerun ==
  /\ pc # "load"
  /\ pc' = "load"
  /\ ns' = <<>>
  /\ UNCHANGED <<csv_file, cache, load_runs>>

Next ==
  \/ CallLoadData
  \/ LastUpdated
  \/ MinDate
  \/ MaxDate
  \/ DateInput
  \/ Countries
  \/ SelectBox
  \/ Filter
  \/ Metrics
  \/ MonthlyTrend
  \/ MonthlyCsv
  \/ CountryTrend
  \/ HourlyPattern
  \/ TopProducts
  \/ TopCountries
  \/ CustomerOrders
  \/ Correlation
  \/ Rerun

Spec == Init /\ [][Next]_vars

(***************************************************************************)
(* Properties                                                              *)
(***************************************************************************)
\* The sum of a sequence of numbers.
RECURSIVE SumSeq(_)
SumSeq(s) == IF s = <<>> THEN 0 ELSE Head(s) + SumSeq(Tail(s))

\* The columns of a loaded row.
LoadedColumns ==
  {"InvoiceNo", "Description", "Quantity", "InvoiceDate", "UnitPrice",
   "CustomerID", "Country", "TotalPrice"}

\* C1: every row of the table returned by load_data has Quantity > 0, a
\* CustomerID that is not missing and TotalPrice = Quantity * UnitPrice, and
\* no two rows of it are identical in all columns.
C1_LoadedRowsClean ==
  Assigned("df") =>
    /\ \A i \in 1..Len(df) :
         /\ df[i].Quantity > 0
         /\ df[i].CustomerID # NaN
         /\ df[i].TotalPrice = df[i].Quantity * df[i].UnitPrice
    /\ \A i, j \in 1..Len(df) : i # j => df[i] # df[j]

\* A load of a file holding the same valid row twice: one copy is kept.
C1_Witness ==
  /\ Assigned("df")
  /\ Len(csv_file) = 2
  /\ csv_file[1] = csv_file[2]
  /\ Len(df) = 1

\* Days-style ordinal of a date, for comparing dates as numbers.
DateOrdinal(d) == (d.year * 12 + (d.month - 1)) * 31 + (d.day - 1)

\* Whether a loaded row belongs to the interval and country selection.
Selected(r, range, sel) ==
  /\ DateOrdinal(range[1]) <= DateOrdinal(date(r.InvoiceDate))
  /\ DateOrdinal(date(r.InvoiceDate)) <= DateOrdinal(range[2])
  /\ (sel # "All" => r.Country = sel)

\* C2: the filtered table is exactly the subsequence of the loaded rows
\* whose date lies in [start, end] (bounds included, time of day ignored)
\* and, unless the selection is 'All', whose Country is the selection; the
\* rows keep their order and their contents.
C2_FilterIsSubsequence ==
  (Assigned("filtered_df") /\ ~Assigned("hourly_sales")) =>
    filtered_df = SelectSeq(df, LAMBDA r : Selected(r, date_range, selected_country))

\* A country is selected, a row is kept and a row is dropped, and the kept
\* row lies on the end date at a time of day after midnight.
C2_Witness ==
  /\ pc = "metrics"
  /\ selected_country # "All"
  /\ Len(filtered_df) = 1
  /\ Len(df) = 2
  /\ date(filtered_df[1].InvoiceDate) = date_range[2]
  /\ filtered_df[1].InvoiceDate.hour > 0

\* C3: avg_order_value is 0 when total_orders (the number of distinct
\* InvoiceNo) is 0 and is otherwise exactly total_sales / total_orders, with
\* total_sales the sum of TotalPrice; no division by zero takes place.
C3_AvgOrderValue ==
  Assigned("avg_order_value") =>
    /\ total_orders = Cardinality({filtered_df[i].InvoiceNo : i \in 1..Len(filtered_df)})
    /\ total_sales = SumSeq([i \in 1..Len(filtered_df) |-> filtered_df[i].TotalPrice])
    /\ avg_order_value.den > 0
    /\ total_orders = 0 => avg_order_value = Zero
    /\ total_orders # 0 =>
         avg_order_value.num * total_orders = total_sales * avg_order_value.den

\* Two orders whose average is not a whole number.
C3_Witness ==
  /\ Assigned("avg_order_value")
  /\ total_orders = 2
  /\ avg_order_value.den = 2

\* The rows of the filtered table whose column col is k.
RowsWith(col, k) == SelectSeq(filtered_df, LAMBDA r : r[col] = k)

\* The sum of column val over the rows whose column col is k.
Aggregate(col, k, val) ==
  SumSeq([i \in 1..Len(RowsWith(col, k)) |-> RowsWith(col, k)[i][val]])

GroupsPresent(col) == {filtered_df[i][col] : i \in 1..Len(filtered_df)}

\* What C4 asks of one top-N result over grouping column col, summed val.
IsTopN(result, col, val) ==
  /\ Len(result) <= TopN
  /\ \A i \in 1..Len(result) :
       /\ result[i].key \in GroupsPresent(col)
       /\ result[i].val = Aggregate(col, result[i].key, val)
  /\ \A i, j \in 1..Len(result) : i < j =>
       /\ result[i].val <= result[j].val
       /\ result[i].key # result[j].key
  /\ Len(result) = (IF Cardinality(GroupsPresent(col)) < TopN
                      THEN Cardinality(GroupsPresent(col)) ELSE TopN)
  /\ \A k \in GroupsPresent(col) \ Range(index_of(result)) :
       \A i \in 1..Len(result) : Aggregate(col, k, val) <= result[i].val

\* C4: each top-10 aggregation returns at most 10 groups, each a group of
\* the filtered table with its correct sum, sorted by the sum, and no group
\* left out has a strictly larger sum than a returned one.
C4_TopTen ==
  /\ Assigned("top_products_data") =>
       IsTopN(top_products_data, "Description", "Quantity")
  /\ Assigned("top_countries_data") =>
       IsTopN(top_countries_data, "Country", "TotalPrice")

\* More than 10 products and countries, with a group left out whose sum
\* equals that of the last group taken.
C4_Witness ==
  /\ Assigned("top_countries_data")
  /\ Cardinality(GroupsPresent("Description")) > TopN
  /\ Cardinality(GroupsPresent("Country")) > TopN
  /\ Len(top_products_data) = TopN
  /\ \E k \in GroupsPresent("Country") \ Range(index_of(top_countries_data)) :
       Aggregate("Country", k, "TotalPrice") = top_countries_data[1].val

\* start > end for the chosen date interval.
Inverted ==
  /\ Assigned("date_range")
  /\ Len(date_range) = 2
  /\ ~DateLE(date_range[1], date_range[2])

\* The six results that are series or tables, by variable name.
SeriesResults ==
  {"monthly_country_sales", "hourly_sales", "top_products_data",
   "top_countries_data", "customer_orders"}

\* C5 as stated: with start > end the filter yields an empty table without
\* error and each of the seven chart aggregations returns an empty result.
C5_AllSevenEmpty ==
  Inverted =>
    /\ pc # "crashed"
    /\ Assigned("filtered_df") => filtered_df = <<>>
    /\ Assigned("monthly_sales") => monthly_sales.items = <<>>
    /\ \A v \in SeriesResults : Assigned(v) => ns[v] = <<>>
    /\ Assigned("corr_matrix") => DOMAIN corr_matrix = {}

\* C5, amended: with start > end the filter yields an empty table without
\* error, the six grouped aggregations return empty results, and the
\* correlation matrix is the 3 x 3 matrix whose every entry is nan.
C5_SixEmptyCorrNaN ==
  Inverted =>
    /\ pc # "crashed"
    /\ Assigned("filtered_df") => filtered_df = <<>>
    /\ Assigned("monthly_sales") => monthly_sales.items = <<>>
    /\ \A v \in SeriesResults : Assigned(v) => ns[v] = <<>>
    /\ Assigned("corr_matrix") =>
         /\ DOMAIN corr_matrix = NumericColumns \X NumericColumns
         /\ \A p \in DOMAIN corr_matrix : corr_matrix[p] = NaNCorr

\* A run over a loaded table with rows that reached its end with start > end.
C5_Witness ==
  /\ Inverted
  /\ pc = "done"
  /\ Len(df) = 2
  /\ Assigned("corr_matrix")

\* The decimal number written by a sequence of digit characters.
DigitValue(c) == CHOOSE d \in 0..9 : Digit(d) = c

NumberOf(text) ==
  LET F[i \in 0..Len(text)] == IF i = 0 THEN 0 ELSE 10 * F[i - 1] + DigitValue(text[i])
  IN F[Len(text)]

\* The month written as 'YYYY-MM'.
MonthOfText(text) ==
  [year |-> NumberOf(SubSeq(text, 1, 4)), month |-> NumberOf(SubSeq(text, 6, 7))]

MonthsPresent == {to_period(filtered_df[i].InvoiceDate) : i \in 1..Len(filtered_df)}

MonthTotal(m) ==
  SumSeq([i \in 1..Len(filtered_df) |->
            IF to_period(filtered_df[i].InvoiceDate) = m
              THEN filtered_df[i].TotalPrice ELSE 0])

\* The lines after the header: one per month present, ascending, 'YYYY-MM'
\* followed by that month's sum of TotalPrice.
ExportBody ==
  /\ Len(csv) = 1 + Cardinality(MonthsPresent)
  /\ \A i \in 2..Len(csv) :
       /\ Len(csv[i]) = 2
       /\ Len(csv[i][1]) = 7
       /\ csv[i][1][5] = "-"
       /\ MonthOfText(csv[i][1]) \in MonthsPresent
       /\ csv[i][2] = MonthTotal(MonthOfText(csv[i][1]))
  /\ \A i, j \in 2..Len(csv) : i < j =>
       \/ MonthOfText(csv[i][1]).year < MonthOfText(csv[j][1]).year
       \/ /\ MonthOfText(csv[i][1]).year = MonthOfText(csv[j][1]).year
          /\ MonthOfText(csv[i][1]).month < MonthOfText(csv[j][1]).month

\* C6 as stated: the export's header names exactly the columns Month and
\* Sales, and one line per month present follows, months ascending, with
\* the month's sum of TotalPrice.
C6_ExportMonthSales ==
  (Assigned("csv") /\ ~Assigned("hourly_sales")) =>
    /\ csv[1] = <<"Month", "Sales">>
    /\ ExportBody

\* C6, amended: the export's header names the columns InvoiceDate and
\* Sales, and one line per month present follows, months ascending, with
\* the month's sum of TotalPrice.
C6_ExportInvoiceDateSales ==
  (Assigned("csv") /\ ~Assigned("hourly_sales")) =>
    /\ csv[1] = <<"InvoiceDate", "Sales">>
    /\ ExportBody

\* An export of two months.
C6_Witness ==
  /\ Assigned("csv")
  /\ Len(csv) = 3
  /\ Cardinality(MonthsPresent) = 2

\* C7: at every point of every run, the first and each rerun, the base
\* table df is the table the one execution of load_data produced, in rows,
\* columns and values; load_data's body runs at most once; the Hour column
\* lands only in filtered_df.
C7_BaseTableImmutable ==
  /\ load_runs <= 1
  /\ cache # <<>> => load_runs = 1
  /\ Assigned("df") =>
       /\ cache # <<>>
       /\ df = cache[1]
       /\ \A i \in 1..Len(df) : DOMAIN df[i] = LoadedColumns

\* The hourly step has written Hour into filtered_df; df is as loaded.
C7_Witness ==
  /\ pc = "done"
  /\ load_runs = 1
  /\ Len(filtered_df) = 2
  /\ \A i \in 1..Len(filtered_df) : "Hour" \in DOMAIN filtered_df[i]
  /\ df = cache[1]

\* C8: filtering the filtered table again by the same interval and country
\* gives the filtered table itself, rows and order.
C8_FilterIdempotent ==
  Assigned("filtered_df") =>
    ApplyFilter(filtered_df, date_range, selected_country) = filtered_df

\* A filter that kept one row of two.
C8_Witness ==
  /\ Assigned("filtered_df")
  /\ Len(df) = 2
  /\ Len(filtered_df) = 1

\* Whether column c takes at least two values over the filtered rows.
Varies(c) == \E i, j \in 1..Len(filtered_df) : filtered_df[i][c] # filtered_df[j][c]

\* C9 as stated: every diagonal entry of the correlation matrix is exactly
\* 1.0, for an empty, single-row or constant-column table as well.
C9_DiagonalAlwaysOne ==
  Assigned("corr_matrix") =>
    \A c \in NumericColumns : corr_matrix[<<c, c>>] = OneCorr

\* C9, amended: a diagonal entry of the correlation matrix is exactly 1.0
\* when its column takes at least two different values over the filtered
\* rows, and nan otherwise (no row, one row, or a constant column).
C9_DiagonalOneOrNaN ==
  Assigned("corr_matrix") =>
    \A c \in NumericColumns :
      corr_matrix[<<c, c>>] = (IF Varies(c) THEN OneCorr ELSE NaNCorr)

\* A table with rows in which one column varies and another is constant.
C9_Witness ==
  /\ Assigned("corr_matrix")
  /\ Varies("Quantity")
  /\ ~Varies("UnitPrice")
  /\ corr_matrix[<<"Quantity", "Quantity">>] = OneCorr

CountriesKept == Range(top_countries)

CountriesCharted == Range(index_of(top_countries_data))

CountryTotal(c) == Aggregate("Country", c, "TotalPrice")

\* No country left out of top_countries has the same total as one kept.
NoTieAtCut ==
  \A c \in CountriesKept : \A d \in GroupsPresent("Country") \ CountriesKept :
    CountryTotal(d) # CountryTotal(c)

\* C10 as stated: the countries kept in the country monthly trend are the
\* countries of the top-countries chart, ties at the tenth place included,
\* and every row of the trend belongs to one of them.
C10_SameCountries ==
  Assigned("top_countries_data") =>
    /\ CountriesKept = CountriesCharted
    /\ \A i \in 1..Len(monthly_country_sales) :
         monthly_country_sales[i].Country \in CountriesKept

\* C10, amended: every row of the country monthly trend belongs to a
\* country kept by its own top-10 cut; that set is the set of the
\* top-countries chart whenever no country left out has the same total as
\* a country kept (with such a tie the two cuts may keep different ones).
C10_SameCountriesUnlessTie ==
  Assigned("top_countries_data") =>
    /\ NoTieAtCut => CountriesKept = CountriesCharted
    /\ \A i \in 1..Len(monthly_country_sales) :
         monthly_country_sales[i].Country \in CountriesKept

\* More than 10 countries, none tied across the cut.
C10_Witness ==
  /\ Assigned("top_countries_data")
  /\ Cardinality(GroupsPresent("Country")) > TopN
  /\ NoTieAtCut
  /\ CountriesKept = CountriesCharted

====
